---- MODULE Spec2Model ----
(***************************************************************************)
(* A model of the station search of vayuayan's CPCBClient                  *)
(* (src/vayuayan/client.py) and of the helpers it calls in                 *)
(* src/vayuayan/utils.py.                                                  *)
(*                                                                         *)
(* feed is the "stations" list the portal answers list_stations with: a    *)
(* sequence of city records, each with a cityName and its stationsInCity.  *)
(* ret is the outcome of the last search call: what was asked, and what    *)
(* the call returned or raised. posts counts the safe_post calls the       *)
(* client has made for list_stations.                                      *)
(*                                                                         *)
(* The second part is a model of utils.safe_get and utils.safe_post, one   *)
(* call at a time: args are the arguments of the call, attempt is the loop *)
(* variable, pc says which request the call is about to send, sent is the  *)
(* log of the requests sent so far with what came back for each, and       *)
(* result is what the call returned or raised.                             *)
(*                                                                         *)
(* The third part is a model of PM25Client.download_netcdf_if_needed and   *)
(* of _request_with_ssl_fallback, which it calls                           *)
(* (src/vayuayan/air_quality_client.py): files is the cache directory, a   *)
(* file or none at each path; download is the call under way or the last   *)
(* one, with the requests it has sent; finished keeps, for each (year,     *)
(* month), how the last call for it ended.                                 *)
(*                                                                         *)
(* Coordinates are whole degrees, distances are whole metres: the table    *)
(* HaversineTable holds the values utils.haversine_distance computes on    *)
(* the points of the model, rounded to the metre (the rounding keeps every *)
(* order and every tie between the floats of one query point).             *)
(***************************************************************************)
EXTENDS Integers, Sequences, FiniteSets, TLC

VARIABLES feed, ret, posts, args, attempt, pc, sent, result,
          files, download, finished

vars == <<feed, ret, posts, args, attempt, pc, sent, result,
          files, download, finished>>

\* The variables of a safe_get or safe_post call.
http == <<args, attempt, pc, sent, result>>

\* The variables of the PM2.5 cache.
pm25 == <<files, download, finished>>

(***************************************************************************)
(* Bounds of the model.                                                    *)
(***************************************************************************)
MaxStations == 3

MaxK == 3

(***************************************************************************)
(* The inputs the model draws from.                                        *)
(***************************************************************************)
\* Query points (lat, lon): one inland, one next to the 180 degree
\* meridian, one next to the pole.
Queries == { <<19, 73>>, <<0, 179>>, <<89, 0>> }

\* The latitude and longitude strings of a station record in the feed: a
\* place one degree west of the inland query, one across the 180 degree
\* meridian, one across the pole, and a record whose latitude is not a
\* number. Several stations may stand at the same place.
Places ==
    { [latitude |-> "19", longitude |-> "72"],
      [latitude |-> "0", longitude |-> "-179"],
      [latitude |-> "89", longitude |-> "180"],
      [latitude |-> "abc", longitude |-> "72"] }

CityNames == { "agra", "Bhopal" }

\* Search radii in km: the nearer one lets the bounding box in and the exact
\* distance out for the station one degree west of the inland query.
Radii == { 105, 300 }

KValues == 0 .. MaxK

SearchOps ==
    { "get_nearest_station", "get_k_nearest_stations",
      "get_nearest_station_within_radius" }

(***************************************************************************)
(* float(): the strings of the feed that parse, and their values.          *)
(* float("abc") raises ValueError.                                         *)
(***************************************************************************)
FloatTable ==
    "0" :> 0 @@ "19" :> 19 @@ "89" :> 89 @@
    "72" :> 72 @@ "-179" :> (0 - 179) @@ "180" :> 180

IsFloat(s) == s \in DOMAIN FloatTable

Float(s) == FloatTable[s]

(***************************************************************************)
(* utils.haversine_distance on the points of the model, in metres.         *)
(***************************************************************************)
HaversineTable ==
    <<19, 73, 19, 73>> :> 0 @@ <<19, 73, 0, 179>> :> 11687350 @@
    <<19, 73, 89, 0>> :> 7862637 @@ <<19, 73, 19, 72>> :> 105137 @@
    <<19, 73, 0, -179>> :> 11896589 @@ <<19, 73, 89, 180>> :> 7927654 @@
    <<0, 179, 19, 73>> :> 11687350 @@ <<0, 179, 0, 179>> :> 0 @@
    <<0, 179, 89, 0>> :> 10118721 @@ <<0, 179, 19, 72>> :> 11792002 @@
    <<0, 179, 0, -179>> :> 222390 @@ <<0, 179, 89, 180>> :> 9896365 @@
    <<89, 0, 19, 73>> :> 7862637 @@ <<89, 0, 0, 179>> :> 10118721 @@
    <<89, 0, 89, 0>> :> 0 @@ <<89, 0, 19, 72>> :> 7860783 @@
    <<89, 0, 0, -179>> :> 10118721 @@ <<89, 0, 89, 180>> :> 222390 @@
    <<19, 72, 19, 73>> :> 105137 @@ <<19, 72, 0, 179>> :> 11792002 @@
    <<19, 72, 89, 0>> :> 7860783 @@ <<19, 72, 19, 72>> :> 0 @@
    <<19, 72, 0, -179>> :> 12001107 @@ <<19, 72, 89, 180>> :> 7929501 @@
    <<0, -179, 19, 73>> :> 11896589 @@ <<0, -179, 0, 179>> :> 222390 @@
    <<0, -179, 89, 0>> :> 10118721 @@ <<0, -179, 19, 72>> :> 12001107 @@
    <<0, -179, 0, -179>> :> 0 @@ <<0, -179, 89, 180>> :> 9896365 @@
    <<89, 180, 19, 73>> :> 7927654 @@ <<89, 180, 0, 179>> :> 9896365 @@
    <<89, 180, 89, 0>> :> 222390 @@ <<89, 180, 19, 72>> :> 7929501 @@
    <<89, 180, 0, -179>> :> 9896365 @@ <<89, 180, 89, 180>> :> 0

\* haversine_distance with a sign: negative when the second point lies
\* south of the first, or west of it on the same latitude.
haversine_distance_Signed(lat1, lon1, lat2, lon2) ==
    IF lat2 < lat1 \/ (lat2 = lat1 /\ lon2 < lon1)
    THEN 0 - HaversineTable[<<lat1, lon1, lat2, lon2>>]
    ELSE HaversineTable[<<lat1, lon1, lat2, lon2>>]

haversine_distance(lat1, lon1, lat2, lon2) ==
    HaversineTable[<<lat1, lon1, lat2, lon2>>]

\* float("inf"): above every distance on the globe.
Infinity == 2000000000

\* 10000 * math.cos(math.radians(lat)) for the query latitudes, to the unit.
CosTable == 0 :> 10000 @@ 19 :> 9455 @@ 89 :> 175

Abs(x) == IF x < 0 THEN 0 - x ELSE x

(***************************************************************************)
(* utils.sort_station_data: cities by (-live percentage, lower-cased       *)
(* name), the stations of each city by (not live, name); both sorts are    *)
(* Python's sorted(), which is stable.                                     *)
(***************************************************************************)
\* str.lower() on the names of the model.
Lower(s) == IF s = "Bhopal" THEN "bhopal" ELSE s

\* The order of Python's str comparison on the (lower-cased) names.
StrRank == "" :> 0 @@ "agra" :> 1 @@ "bhopal" :> 2

StrLess(a, b) == StrRank[a] < StrRank[b]

RECURSIVE LiveCount(_)
LiveCount(stations) ==
    IF stations = <<>> THEN 0
    ELSE (IF Head(stations).live THEN 1 ELSE 0) + LiveCount(Tail(stations))

\* get_live_status_priority(a) < get_live_status_priority(b): the live
\* percentages live/total*100 (0 for a city without stations) are compared
\* as fractions.
CityKeyLess(a, b) ==
    LET la == LiveCount(a.stationsInCity)
        lb == LiveCount(b.stationsInCity)
        ta == IF Len(a.stationsInCity) > 0 THEN Len(a.stationsInCity) ELSE 1
        tb == IF Len(b.stationsInCity) > 0 THEN Len(b.stationsInCity) ELSE 1
    IN  \/ la * tb > lb * ta
        \/ /\ la * tb = lb * ta
           /\ StrLess(Lower(a.cityName), Lower(b.cityName))

\* (not live, name) of a < (not live, name) of b.
StationKeyLess(a, b) ==
    \/ a.live /\ ~b.live
    \/ a.live = b.live /\ StrLess(a.name, b.name)

\* x put into the sorted sequence s behind every element that is not
\* greater than it: one step of a stable sort.
RECURSIVE InsertCity(_, _)
InsertCity(s, x) ==
    IF s = <<>> THEN <<x>>
    ELSE IF CityKeyLess(x, Head(s)) THEN <<x>> \o s
    ELSE <<Head(s)>> \o InsertCity(Tail(s), x)

RECURSIVE SortCities(_)
SortCities(s) ==
    IF s = <<>> THEN <<>>
    ELSE InsertCity(SortCities(SubSeq(s, 1, Len(s) - 1)), s[Len(s)])

RECURSIVE InsertStation(_, _)
InsertStation(s, x) ==
    IF s = <<>> THEN <<x>>
    ELSE IF StationKeyLess(x, Head(s)) THEN <<x>> \o s
    ELSE <<Head(s)>> \o InsertStation(Tail(s), x)

RECURSIVE SortStations(_)
SortStations(s) ==
    IF s = <<>> THEN <<>>
    ELSE InsertStation(SortStations(SubSeq(s, 1, Len(s) - 1)), s[Len(s)])

sort_station_data(data) ==
    LET sorted_data == SortCities(data)
    IN  [i \in 1 .. Len(sorted_data) |->
            [sorted_data[i] EXCEPT
                !.stationsInCity = SortStations(sorted_data[i].stationsInCity)]]

\* CPCBClient.list_stations on a request that succeeded.
list_stations(stations) == sort_station_data(stations)

\* for city in cities: for station in city.get("stationsInCity", []): the
\* stations in the order the three searches meet them.
RECURSIVE Traversal(_)
Traversal(cities) ==
    IF cities = <<>> THEN <<>>
    ELSE Head(cities).stationsInCity \o Traversal(Tail(cities))

\* A record whose latitude and longitude both parse; id 0 is a record
\* without the "id" key.
CoordsOk(station) == IsFloat(station.latitude) /\ IsFloat(station.longitude)

Dist(q, station) ==
    haversine_distance(q[1], q[2], Float(station.latitude), Float(station.longitude))

(***************************************************************************)
(* CPCBClient.get_nearest_station                                          *)
(***************************************************************************)
\* The body of the loop on one station. min_distance is assigned before
\* station["id"] is read, so a KeyError leaves the new min_distance behind.
NearestStep(acc, station, q) ==
    IF ~CoordsOk(station) THEN acc
    ELSE IF Dist(q, station) < acc.min_distance
         THEN IF station.id # 0
              THEN [min_distance |-> Dist(q, station),
                    nearest_station_id |-> station.id]
              ELSE [acc EXCEPT !.min_distance = Dist(q, station)]
         ELSE acc

RECURSIVE NearestLoop(_, _, _)
NearestLoop(acc, stations, q) ==
    IF stations = <<>> THEN acc
    ELSE NearestLoop(NearestStep(acc, Head(stations), q), Tail(stations), q)

NoRet ==
    [op |-> "none", q |-> <<0, 0>>, k |-> 0, r |-> 0, return_distance |-> FALSE,
     kind |-> "none", msg |-> "", id |-> 0, dist |-> 0 - 1, list |-> <<>>]

Raise(call, exc, msg) == [call EXCEPT !.kind = exc, !.msg = msg]

\* get_nearest_station without the check of nearest_station_id against None.
get_nearest_station_Unchecked(stations, q, return_distance) ==
    LET call == [NoRet EXCEPT !.op = "get_nearest_station", !.q = q,
                              !.return_distance = return_distance]
        cities == list_stations(stations)
        acc == NearestLoop([min_distance |-> Infinity, nearest_station_id |-> 0],
                           Traversal(cities), q)
    IN  IF cities = <<>> THEN Raise(call, "CPCBError", "No stations available")
        ELSE [call EXCEPT !.kind = "return",
                          !.id = acc.nearest_station_id,
                          !.dist = IF return_distance THEN acc.min_distance ELSE 0 - 1]

get_nearest_station(stations, q, return_distance) ==
    LET call == [NoRet EXCEPT !.op = "get_nearest_station", !.q = q,
                              !.return_distance = return_distance]
        cities == list_stations(stations)
        acc == NearestLoop([min_distance |-> Infinity, nearest_station_id |-> 0],
                           Traversal(cities), q)
    IN  IF cities = <<>> THEN Raise(call, "CPCBError", "No stations available")
        ELSE IF acc.nearest_station_id = 0
             THEN Raise(call, "CPCBError", "No valid stations found")
        ELSE [call EXCEPT !.kind = "return",
                          !.id = acc.nearest_station_id,
                          !.dist = IF return_distance THEN acc.min_distance ELSE 0 - 1]

(***************************************************************************)
(* CPCBClient.get_k_nearest_stations                                       *)
(*                                                                         *)
(* The heap holds tuples (-distance, station["id"], distance, station);    *)
(* heapq orders them as Python orders tuples. The ids of a feed are        *)
(* distinct, so the comparison is decided by the second item at the        *)
(* latest. Positions are heapq's, counted from 0.                          *)
(***************************************************************************)
TupleLess(a, b) ==
    \/ a.negd < b.negd
    \/ a.negd = b.negd /\ a.id < b.id

At(heap, pos) == heap[pos + 1]

Put(heap, pos, item) == [heap EXCEPT ![pos + 1] = item]

\* heapq._siftdown: newitem moves from pos towards the root.
RECURSIVE siftdown(_, _, _, _)
siftdown(heap, startpos, pos, newitem) ==
    IF pos > startpos /\ TupleLess(newitem, At(heap, (pos - 1) \div 2))
    THEN siftdown(Put(heap, pos, At(heap, (pos - 1) \div 2)),
                  startpos, (pos - 1) \div 2, newitem)
    ELSE Put(heap, pos, newitem)

\* heapq._siftup: the smaller child moves up until a leaf is reached, then
\* newitem is sifted down from there.
RECURSIVE siftup(_, _, _, _)
siftup(heap, startpos, pos, newitem) ==
    LET endpos == Len(heap)
        childpos == 2 * pos + 1
        rightpos == childpos + 1
        smaller == IF rightpos < endpos
                      /\ ~TupleLess(At(heap, childpos), At(heap, rightpos))
                   THEN rightpos ELSE childpos
    IN  IF childpos < endpos
        THEN siftup(Put(heap, pos, At(heap, smaller)), startpos, smaller, newitem)
        ELSE siftdown(Put(heap, pos, newitem), startpos, pos, newitem)

heappush(heap, item) == siftdown(Append(heap, item), 0, Len(heap), item)

heapreplace(heap, item) == siftup(Put(heap, 0, item), 0, 0, item)

HeapItem(station, distance) ==
    [negd |-> 0 - distance, id |-> station.id, distance |-> distance,
     station |-> station]

\* KNearestStep with a full heap that is never touched again: the branch
\* that replaces the farthest station is lost.
KNearestStep_NeverReplaces(st, station, q, k) ==
    IF st.exc # "" \/ ~CoordsOk(station) THEN st
    ELSE IF Len(st.heap) < k
         THEN IF station.id = 0 THEN st
              ELSE [st EXCEPT !.heap = heappush(@, HeapItem(station, Dist(q, station)))]
    ELSE IF st.heap = <<>> THEN [st EXCEPT !.exc = "IndexError"]
    ELSE st

\* KNearestStep with len(heap) <= k for len(heap) < k.
KNearestStep_OneTooMany(st, station, q, k) ==
    IF st.exc # "" \/ ~CoordsOk(station) THEN st
    ELSE IF Len(st.heap) <= k
         THEN IF station.id = 0 THEN st
              ELSE [st EXCEPT !.heap = heappush(@, HeapItem(station, Dist(q, station)))]
    ELSE IF st.heap = <<>> THEN [st EXCEPT !.exc = "IndexError"]
    ELSE IF Dist(q, station) < 0 - At(st.heap, 0).negd
         THEN IF station.id = 0 THEN st
              ELSE [st EXCEPT
                       !.heap = heapreplace(@, HeapItem(station, Dist(q, station)))]
    ELSE st

\* The body of the loop on one station. st.heap is the heap, st.exc the
\* exception that left the loop ("" while there is none). A record without
\* "id" raises KeyError while the tuple is built, before the heap changes;
\* heap[0] on an empty heap raises IndexError, which the loop does not catch.
KNearestStep(st, station, q, k) ==
    IF st.exc # "" \/ ~CoordsOk(station) THEN st
    ELSE IF Len(st.heap) < k
         THEN IF station.id = 0 THEN st
              ELSE [st EXCEPT !.heap = heappush(@, HeapItem(station, Dist(q, station)))]
    ELSE IF st.heap = <<>> THEN [st EXCEPT !.exc = "IndexError"]
    ELSE IF Dist(q, station) < 0 - At(st.heap, 0).negd
         THEN IF station.id = 0 THEN st
              ELSE [st EXCEPT
                       !.heap = heapreplace(@, HeapItem(station, Dist(q, station)))]
    ELSE st

RECURSIVE KNearestLoop(_, _, _, _)
KNearestLoop(st, stations, q, k) ==
    IF stations = <<>> THEN st
    ELSE KNearestLoop(KNearestStep(st, Head(stations), q, k), Tail(stations), q, k)

\* sorted(results, key=lambda x: x[1]): a stable sort by distance.
RECURSIVE InsertResult(_, _)
InsertResult(s, x) ==
    IF s = <<>> THEN <<x>>
    ELSE IF x.distance < Head(s).distance THEN <<x>> \o s
    ELSE <<Head(s)>> \o InsertResult(Tail(s), x)

\* The results left in the order of the heap.
SortResults_HeapOrder(s) == s

RECURSIVE SortResults(_)
SortResults(s) ==
    IF s = <<>> THEN <<>>
    ELSE InsertResult(SortResults(SubSeq(s, 1, Len(s) - 1)), s[Len(s)])

get_k_nearest_stations(stations, q, k) ==
    LET call == [NoRet EXCEPT !.op = "get_k_nearest_stations", !.q = q, !.k = k]
        cities == list_stations(stations)
        st == KNearestLoop([heap |-> <<>>, exc |-> ""], Traversal(cities), q, k)
        results == [i \in 1 .. Len(st.heap) |->
                       [station |-> st.heap[i].station,
                        distance |-> st.heap[i].distance]]
    IN  IF cities = <<>> THEN Raise(call, "CPCBError", "No stations available")
        ELSE IF st.exc # "" THEN Raise(call, st.exc, "")
        ELSE [call EXCEPT !.kind = "return", !.list = SortResults(results)]

(***************************************************************************)
(* CPCBClient.get_nearest_station_within_radius                            *)
(***************************************************************************)
\* min_lat <= station_lat <= max_lat and min_lon <= station_lon <= max_lon
\* with lat_delta = r / 111 and lon_delta = r / (111 * cos(target_lat)).
InBoundingBox(q, station_lat, station_lon, max_distance_km) ==
    /\ 111 * Abs(station_lat - q[1]) <= max_distance_km
    /\ 111 * CosTable[q[1]] * Abs(station_lon - q[2]) <= max_distance_km * 10000

\* RadiusStep without the comparison of the distance with max_distance_km:
\* the bounding box alone decides.
RadiusStep_BoxOnly(acc, station, q, max_distance_km) ==
    IF ~CoordsOk(station) THEN acc
    ELSE IF ~InBoundingBox(q, Float(station.latitude), Float(station.longitude),
                           max_distance_km)
         THEN acc
    ELSE IF Dist(q, station) < acc.min_distance
         THEN IF station.id # 0
              THEN [min_distance |-> Dist(q, station),
                    nearest_station |-> <<station.id, Dist(q, station)>>]
              ELSE [acc EXCEPT !.min_distance = Dist(q, station)]
    ELSE acc

\* The body of the loop on one station. min_distance is assigned before
\* station["id"] is read, so a KeyError leaves the new min_distance behind
\* and nearest_station as it was.
RadiusStep(acc, station, q, max_distance_km) ==
    IF ~CoordsOk(station) THEN acc
    ELSE IF ~InBoundingBox(q, Float(station.latitude), Float(station.longitude),
                           max_distance_km)
         THEN acc
    ELSE IF /\ Dist(q, station) <= max_distance_km * 1000
            /\ Dist(q, station) < acc.min_distance
         THEN IF station.id # 0
              THEN [min_distance |-> Dist(q, station),
                    nearest_station |-> <<station.id, Dist(q, station)>>]
              ELSE [acc EXCEPT !.min_distance = Dist(q, station)]
    ELSE acc

RECURSIVE RadiusLoop(_, _, _, _)
RadiusLoop(acc, stations, q, r) ==
    IF stations = <<>> THEN acc
    ELSE RadiusLoop(RadiusStep(acc, Head(stations), q, r), Tail(stations), q, r)

\* get_nearest_station_within_radius treating "nothing in range" the way
\* get_nearest_station treats "no valid station": with a CPCBError.
get_nearest_station_within_radius_Raising(stations, q, max_distance_km) ==
    LET call == [NoRet EXCEPT !.op = "get_nearest_station_within_radius",
                              !.q = q, !.r = max_distance_km]
        cities == list_stations(stations)
        acc == RadiusLoop([min_distance |-> Infinity, nearest_station |-> <<>>],
                          Traversal(cities), q, max_distance_km)
    IN  IF acc.nearest_station = <<>>
        THEN Raise(call, "CPCBError", "No valid stations found")
        ELSE [call EXCEPT !.kind = "return",
                          !.id = acc.nearest_station[1],
                          !.dist = acc.nearest_station[2]]

get_nearest_station_within_radius(stations, q, max_distance_km) ==
    LET call == [NoRet EXCEPT !.op = "get_nearest_station_within_radius",
                              !.q = q, !.r = max_distance_km]
        cities == list_stations(stations)
        acc == RadiusLoop([min_distance |-> Infinity, nearest_station |-> <<>>],
                          Traversal(cities), q, max_distance_km)
    IN  IF acc.nearest_station = <<>> THEN [call EXCEPT !.kind = "return"]
        ELSE [call EXCEPT !.kind = "return",
                          !.id = acc.nearest_station[1],
                          !.dist = acc.nearest_station[2]]

(***************************************************************************)
(* The feed: the portal's answer is put together one city or one station   *)
(* at a time, and then one search is called on it. The cities of a feed    *)
(* have different names; the stations are numbered in the order of the     *)
(* feed, and a station may come without its "id".                          *)
(***************************************************************************)
StationCount == Len(Traversal(feed))

AddCity(name) ==
    /\ ret = NoRet
    /\ \A i \in 1 .. Len(feed) : feed[i].cityName # name
    /\ IF feed = <<>> THEN TRUE ELSE feed[Len(feed)].stationsInCity # <<>>
    /\ feed' = Append(feed, [cityName |-> name, stationsInCity |-> <<>>])
    /\ UNCHANGED <<ret, posts, http, pm25>>

AddStation(place, hasId) ==
    /\ ret = NoRet
    /\ feed # <<>>
    /\ StationCount < MaxStations
    /\ LET station == [id |-> IF hasId THEN StationCount + 1 ELSE 0,
                       latitude |-> place.latitude,
                       longitude |-> place.longitude,
                       live |-> FALSE, name |-> ""]
       IN feed' = [feed EXCEPT ![Len(feed)].stationsInCity = Append(@, station)]
    /\ UNCHANGED <<ret, posts, http, pm25>>

\* Each search begins with self.list_stations(), which calls safe_post
\* once.
\* list_stations raises (the request failed): each search raises CPCBError
\* before it reads its arguments.
FetchFails(op) ==
    /\ ret = NoRet
    /\ ret' = Raise([NoRet EXCEPT !.op = op], "CPCBError",
                    "Failed to fetch station data")
    /\ posts' = posts + 1
    /\ UNCHANGED <<feed, http, pm25>>

GetNearestStation(q, return_distance) ==
    /\ ret = NoRet
    /\ ret' = get_nearest_station(feed, q, return_distance)
    /\ posts' = posts + 1
    /\ UNCHANGED <<feed, http, pm25>>

GetKNearestStations(q, k) ==
    /\ ret = NoRet
    /\ ret' = get_k_nearest_stations(feed, q, k)
    /\ posts' = posts + 1
    /\ UNCHANGED <<feed, http, pm25>>

GetNearestStationWithinRadius(q, max_distance_km) ==
    /\ ret = NoRet
    /\ ret' = get_nearest_station_within_radius(feed, q, max_distance_km)
    /\ posts' = posts + 1
    /\ UNCHANGED <<feed, http, pm25>>

\* No safe_get or safe_post call has begun.
\* None, by its type and its truth value.
NoneValue == [type |-> "NoneType", truthy |-> FALSE]

NoArgs ==
    [fn |-> "none", max_retries |-> 0, verify_ssl |-> TRUE,
     allow_ssl_fallback |-> FALSE,
     url |-> NoneValue, headers |-> NoneValue, cookies |-> NoneValue]

NoResponse == [exc |-> "", status_code |-> 0, content |-> ""]

NoResult == [kind |-> "none", msg |-> "", response |-> NoResponse, json |-> ""]

\* The (year, month) pairs of the model; month 0 stands for None, the
\* annual file.
Keys == { <<2020, 0>>, <<2020, 1>> }

\* _get_aws_filename on the pairs of the model.
FilenameTable ==
    <<2020, 0>> :> "V6GL02.04.CNNPM25.GL.202001-202012.nc" @@
    <<2020, 1>> :> "V6GL02.04.CNNPM25.GL.202001-202001.nc"

\* get_netcdf_path: the file name under cache_dir, "pm25_data".
get_netcdf_path(year, month) == "pm25_data/" \o FilenameTable[<<year, month>>]

Paths == { get_netcdf_path(key[1], key[2]) : key \in Keys }

\* No file at a path.
NoFile == [exists |-> FALSE, size |-> 0]

\* No download_netcdf_if_needed call has begun.
NoDownload ==
    [pc |-> "idle", year |-> 0, month |-> 0, force_download |-> FALSE,
     before |-> NoFile, requests |-> <<>>, request_raised |-> "",
     chunks |-> 0, kind |-> "none", value |-> ""]

\* No call has ended.
NoCall == [kind |-> "none", size |-> 0]

Init ==
    /\ files = [path \in Paths |-> NoFile]
    /\ download = NoDownload
    /\ finished = [key \in Keys |-> NoCall]
    /\ feed = <<>>
    /\ ret = NoRet
    /\ posts = 0
    /\ args = NoArgs
    /\ attempt = 0
    /\ pc = "idle"
    /\ sent = <<>>
    /\ result = NoResult

Next ==
    \/ \E name \in CityNames : AddCity(name)
    \/ \E place \in Places, hasId \in BOOLEAN : AddStation(place, hasId)
    \/ \E op \in SearchOps : FetchFails(op)
    \/ \E q \in Queries, rd \in BOOLEAN : GetNearestStation(q, rd)
    \/ \E q \in Queries, k \in KValues : GetKNearestStations(q, k)
    \/ \E q \in Queries, r \in Radii : GetNearestStationWithinRadius(q, r)

Spec == Init /\ [][Next]_vars

(***************************************************************************)
(* utils.safe_get and utils.safe_post.                                     *)
(*                                                                         *)
(* A request comes back with an exception of the requests library or with  *)
(* a response, of which the model keeps the status code and the content.   *)
(***************************************************************************)
MaxRetries == 2

\* max_retries of a call; with -1 the loop over range(max_retries + 1) is
\* empty.
RetryValues == (0 - 1) .. MaxRetries

\* Response bodies: empty, the base64 of "{}", a string that is not base64
\* (wrong padding), and the base64 of "hi", which is not JSON.
Contents == { "", "e30=", "abc", "aGk=" }

Outcomes ==
    { [exc |-> e, status_code |-> 0, content |-> ""] :
        e \in { "SSLError", "ConnectionError", "Timeout" } }
    \cup { [exc |-> "", status_code |-> 200, content |-> c] : c \in Contents }
    \cup { [exc |-> "", status_code |-> s, content |-> ""] : s \in { 404, 503 } }

\* The values of url, headers and cookies, by their type and their truth
\* value.
Values ==
    { [type |-> "str", truthy |-> TRUE], [type |-> "str", truthy |-> FALSE],
      [type |-> "dict", truthy |-> TRUE], [type |-> "dict", truthy |-> FALSE],
      [type |-> "NoneType", truthy |-> FALSE] }

\* response.raise_for_status() raises HTTPError.
HTTPError(response) ==
    400 <= response.status_code /\ response.status_code < 600

\* The request gave a response and raise_for_status let it pass.
Passed(response) == response.exc = "" /\ ~HTTPError(response)

\* b64decode on the bodies of the model: a body outside the table raises.
B64Table == "" :> "" @@ "e30=" :> "{}" @@ "aGk=" :> "hi"

\* json.loads on the decoded bodies: a text outside the table raises.
JsonTable == "{}" :> "dict()"

\* json.loads(b64decode(content)) raises nothing.
Decodes(content) ==
    /\ content \in DOMAIN B64Table
    /\ B64Table[content] \in DOMAIN JsonTable

Decoded(content) == JsonTable[B64Table[content]]

Returned(response, json) ==
    [NoResult EXCEPT !.kind = "return", !.response = response, !.json = json]

Raised(exc, msg) == [NoResult EXCEPT !.kind = exc, !.msg = msg]

\* The call goes on with its next request.
GoOn(n, to) == [attempt |-> n, pc |-> to, result |-> NoResult]

\* The call has ended.
Done(n, res) == [attempt |-> n, pc |-> "done", result |-> res]

\* EndOfAttempt with a loop over range(max_retries + 2).
EndOfAttempt_OneMore(a, n) ==
    IF n <= a.max_retries THEN GoOn(n + 1, "request")
    ELSE Done(n, Raised("NetworkError", "Failed to fetch data"))

\* The end of the loop body: the wait and the next attempt, or the raise
\* after the loop.
EndOfAttempt(a, n) ==
    IF n < a.max_retries THEN GoOn(n + 1, "request")
    ELSE Done(n, Raised("NetworkError", "Failed to fetch data"))

\* AfterSSLError falling back whatever allow_ssl_fallback says.
AfterSSLError_Always(a, n) ==
    IF n < a.max_retries THEN GoOn(n, "fallback")
    ELSE IF n = a.max_retries
         THEN Done(n, Raised("NetworkError", "SSL verification failed"))
    ELSE EndOfAttempt(a, n)

\* except SSLError, up to the fallback request.
AfterSSLError(a, n) ==
    IF a.allow_ssl_fallback /\ n < a.max_retries THEN GoOn(n, "fallback")
    ELSE IF n = a.max_retries
         THEN Done(n, Raised("NetworkError", "SSL verification failed"))
    ELSE EndOfAttempt(a, n)

\* except Exception around the fallback request, and the rest of the
\* except SSLError clause.
AfterFallbackFailed(a, n) ==
    IF n = a.max_retries
    THEN Done(n, Raised("NetworkError", "SSL verification failed"))
    ELSE EndOfAttempt(a, n)

\* safe_get, from the answer to the request of attempt n to the next request
\* or to the end of the call.
safe_get_request(a, n, response) ==
    IF Passed(response) THEN Done(n, Returned(response, ""))
    ELSE IF response.exc = "SSLError" THEN AfterSSLError(a, n)
    ELSE EndOfAttempt(a, n)

\* safe_get, from the answer to the fallback request of attempt n.
safe_get_fallback(a, n, response) ==
    IF Passed(response) THEN Done(n, Returned(response, ""))
    ELSE AfterFallbackFailed(a, n)

\* safe_post, from the answer to the request of attempt n.
safe_post_request(a, n, response) ==
    IF Passed(response)
    THEN IF response.content = "" \/ ~Decodes(response.content)
         THEN Done(n, Raised("DataProcessingError",
                             "Failed to decode base64 or parse JSON"))
         ELSE Done(n, Returned(NoResponse, Decoded(response.content)))
    ELSE IF response.exc = "SSLError" THEN AfterSSLError(a, n)
    ELSE IF response.exc = ""
         THEN IF 400 <= response.status_code /\ response.status_code < 500
              THEN Done(n, Raised("NetworkError", "HTTP error"))
              ELSE EndOfAttempt(a, n)
    ELSE EndOfAttempt(a, n)

\* safe_post, from the answer to the fallback request of attempt n.
safe_post_fallback(a, n, response) ==
    IF Passed(response) /\ Decodes(response.content)
    THEN Done(n, Returned(NoResponse, Decoded(response.content)))
    ELSE AfterFallbackFailed(a, n)

\* The loop begins, or ends at once when range(max_retries + 1) is empty.
Begin(max_retries) ==
    IF max_retries < 0
    THEN Done(0, Raised("NetworkError", "Failed to fetch data"))
    ELSE GoOn(0, "request")

SafeGet(max_retries, verify_ssl, allow_ssl_fallback) ==
    /\ pc = "idle"
    /\ args' = [NoArgs EXCEPT !.fn = "safe_get",
                              !.max_retries = max_retries,
                              !.verify_ssl = verify_ssl,
                              !.allow_ssl_fallback = allow_ssl_fallback,
                              !.url = [type |-> "str", truthy |-> TRUE]]
    /\ attempt' = Begin(max_retries).attempt
    /\ pc' = Begin(max_retries).pc
    /\ result' = Begin(max_retries).result
    /\ UNCHANGED <<sent, feed, ret, posts, pm25>>

\* InputError without the test of cookies.
InputError_CookiesUnchecked(url, headers, cookies) ==
    IF ~url.truthy \/ url.type # "str"
    THEN "URL must be a non-empty string"
    ELSE IF ~headers.truthy \/ headers.type # "dict"
    THEN "Headers must be a non-empty dictionary"
    ELSE ""

\* The input validation of safe_post: the message of the ValueError it
\* raises, or "" when the inputs pass.
InputError(url, headers, cookies) ==
    IF ~url.truthy \/ url.type # "str"
    THEN "URL must be a non-empty string"
    ELSE IF ~headers.truthy \/ headers.type # "dict"
    THEN "Headers must be a non-empty dictionary"
    ELSE IF cookies.type # "NoneType" /\ cookies.type # "dict"
    THEN "Cookies must be a dictionary or None"
    ELSE ""

SafePost(url, headers, cookies, max_retries, verify_ssl, allow_ssl_fallback) ==
    /\ pc = "idle"
    /\ args' = [fn |-> "safe_post", max_retries |-> max_retries,
                verify_ssl |-> verify_ssl,
                allow_ssl_fallback |-> allow_ssl_fallback,
                url |-> url, headers |-> headers, cookies |-> cookies]
    /\ LET go == IF InputError(url, headers, cookies) # ""
                 THEN Done(0, Raised("ValueError",
                                     InputError(url, headers, cookies)))
                 ELSE Begin(max_retries)
       IN  /\ attempt' = go.attempt
           /\ pc' = go.pc
           /\ result' = go.result
    /\ UNCHANGED <<sent, feed, ret, posts, pm25>>

\* requests.get or requests.post with verify=verify_ssl comes back, and the
\* call runs on to its next request or to its end.
Request(response) ==
    /\ pc = "request"
    /\ sent' = Append(sent, [attempt |-> attempt, verify |-> args.verify_ssl,
                             response |-> response])
    /\ LET go == IF args.fn = "safe_get"
                 THEN safe_get_request(args, attempt, response)
                 ELSE safe_post_request(args, attempt, response)
       IN  /\ attempt' = go.attempt
           /\ pc' = go.pc
           /\ result' = go.result
    /\ UNCHANGED <<args, feed, ret, posts, pm25>>

\* The same for the request with verify=False.
FallbackRequest(response) ==
    /\ pc = "fallback"
    /\ sent' = Append(sent, [attempt |-> attempt, verify |-> FALSE,
                             response |-> response])
    /\ LET go == IF args.fn = "safe_get"
                 THEN safe_get_fallback(args, attempt, response)
                 ELSE safe_post_fallback(args, attempt, response)
       IN  /\ attempt' = go.attempt
           /\ pc' = go.pc
           /\ result' = go.result
    /\ UNCHANGED <<args, feed, ret, posts, pm25>>

HttpNext ==
    \/ \E m \in RetryValues, v \in BOOLEAN, f \in BOOLEAN : SafeGet(m, v, f)
    \/ \E url \in Values, headers \in Values, cookies \in Values,
          m \in RetryValues, v \in BOOLEAN, f \in BOOLEAN :
            SafePost(url, headers, cookies, m, v, f)
    \/ \E response \in Outcomes : Request(response)
    \/ \E response \in Outcomes : FallbackRequest(response)

HttpSpec == Init /\ [][HttpNext]_vars

(***************************************************************************)
(* PM25Client.download_netcdf_if_needed and _request_with_ssl_fallback.    *)
(*                                                                         *)
(* A step of the writing loop stands for a run of consecutive chunks of    *)
(* response.iter_content: the loop only appends them to the file, so their *)
(* total length is all that the model keeps of them.                       *)
(***************************************************************************)
\* The runs of chunks a download is made of, at most.
MaxChunks == 2

\* The length in bytes of a run of chunks: an empty chunk, one chunk of
\* chunk_size bytes, and 128 of them, which make the 1 MiB of the cache test.
RunSizes == { 0, 8192, 128 * 8192 }

\* What a request of _request_with_ssl_fallback comes back with; the body
\* is read later, by iter_content.
DownloadOutcomes == { response \in Outcomes : response.content = "" }

\* The class of the exception the request raised.
ExceptionOf(response) ==
    IF response.exc # "" THEN response.exc ELSE "HTTPError"

\* Cached with a test for 2 MiB.
Cached_TwoMiB(file, force_download) ==
    /\ file.exists /\ ~force_download
    /\ file.size > 2 * 1024 * 1024

\* The file is there, no download is forced and the file is larger than
\* 1 MiB: the call returns the cached path.
Cached(file, force_download) ==
    /\ file.exists /\ ~force_download
    /\ file.size > 1024 * 1024

\* Unlink leaving the file where it is.
Unlink_Keeps(fs, path) == fs

\* if cached_path.exists(): cached_path.unlink()
Unlink(fs, path) == [fs EXCEPT ![path] = NoFile]

\* AfterVerified going to the second request after any failure.
AfterVerified_RetriesAll(response) ==
    IF Passed(response) THEN [pc |-> "open", raised |-> ""]
    ELSE [pc |-> "fallback", raised |-> ""]

\* _request_with_ssl_fallback after its first request, sent with
\* verify=True: the response is returned (the caller opens the file), an
\* SSLError leads to the second request, any other exception propagates.
AfterVerified(response) ==
    IF Passed(response) THEN [pc |-> "open", raised |-> ""]
    ELSE IF response.exc = "SSLError" THEN [pc |-> "fallback", raised |-> ""]
    ELSE [pc |-> "done", raised |-> ExceptionOf(response)]

\* _request_with_ssl_fallback after its second request, sent with
\* verify=False: any exception is raised as requests.RequestException.
AfterUnverified(response) ==
    IF Passed(response) THEN [pc |-> "open", raised |-> ""]
    ELSE [pc |-> "done", raised |-> "RequestException"]

Key == <<download.year, download.month>>

Path == get_netcdf_path(download.year, download.month)

\* The except clauses of download_netcdf_if_needed: the file at the cached
\* path is removed if there is one, and the exception is raised again as
\* exc.
Abort(call, exc, msg) ==
    /\ download' = [call EXCEPT !.pc = "done", !.kind = exc, !.value = msg]
    /\ files' = Unlink(files, Path)
    /\ finished' = [finished EXCEPT ![Key] = [kind |-> exc, size |-> 0]]

\* A call begins: it returns the cached path at once, or goes to download.
DownloadNetcdfIfNeeded(year, month, force_download) ==
    /\ download.pc \in { "idle", "done" }
    /\ LET path == get_netcdf_path(year, month)
           call == [NoDownload EXCEPT !.year = year, !.month = month,
                                      !.force_download = force_download,
                                      !.before = files[path]]
       IN  IF Cached(files[path], force_download)
           THEN /\ download' = [call EXCEPT !.pc = "done", !.kind = "return",
                                            !.value = path]
                /\ finished' = [finished EXCEPT ![<<year, month>>] =
                                   [kind |-> "return", size |-> files[path].size]]
           ELSE /\ download' = [call EXCEPT !.pc = "request"]
                /\ UNCHANGED finished
    /\ UNCHANGED <<files, feed, ret, posts, http>>

\* The request with verify=True comes back.
SendVerified(response) ==
    /\ download.pc = "request"
    /\ LET call == [download EXCEPT
                       !.requests = Append(@, [verify |-> TRUE,
                                               response |-> response]),
                       !.request_raised = AfterVerified(response).raised]
       IN  IF AfterVerified(response).pc = "done"
           THEN Abort(call, "RequestException", "Failed to download NetCDF data")
           ELSE /\ download' = [call EXCEPT !.pc = AfterVerified(response).pc]
                /\ UNCHANGED <<files, finished>>
    /\ UNCHANGED <<feed, ret, posts, http>>

\* The request with verify=False comes back.
SendUnverified(response) ==
    /\ download.pc = "fallback"
    /\ LET call == [download EXCEPT
                       !.requests = Append(@, [verify |-> FALSE,
                                               response |-> response]),
                       !.request_raised = AfterUnverified(response).raised]
       IN  IF AfterUnverified(response).pc = "done"
           THEN Abort(call, "RequestException", "Failed to download NetCDF data")
           ELSE /\ download' = [call EXCEPT !.pc = AfterUnverified(response).pc]
                /\ UNCHANGED <<files, finished>>
    /\ UNCHANGED <<feed, ret, posts, http>>

\* open(cached_path, "wb"): the file is created or truncated, or open
\* raises an IOError.
OpenFile(ok) ==
    /\ download.pc = "open"
    /\ IF ok
       THEN /\ download' = [download EXCEPT !.pc = "write"]
            /\ files' = [files EXCEPT ![Path] = [exists |-> TRUE, size |-> 0]]
            /\ UNCHANGED finished
       ELSE Abort(download, "IOError", "Failed to write NetCDF file")
    /\ UNCHANGED <<feed, ret, posts, http>>

\* A run of chunks is read and written to the file.
WriteChunks(size) ==
    /\ download.pc = "write"
    /\ download.chunks < MaxChunks
    /\ download' = [download EXCEPT !.chunks = @ + 1]
    /\ files' = [files EXCEPT ![Path].size = @ + size]
    /\ UNCHANGED <<finished, feed, ret, posts, http>>

\* iter_content raises a requests exception in the middle of the body.
ReadFails ==
    /\ download.pc = "write"
    /\ Abort(download, "RequestException", "Failed to download NetCDF data")
    /\ UNCHANGED <<feed, ret, posts, http>>

\* f.write raises an IOError.
WriteFails ==
    /\ download.pc = "write"
    /\ Abort(download, "IOError", "Failed to write NetCDF file")
    /\ UNCHANGED <<feed, ret, posts, http>>

\* The body has been read to its end: the call returns the cached path.
DownloadComplete ==
    /\ download.pc = "write"
    /\ download' = [download EXCEPT !.pc = "done", !.kind = "return",
                                    !.value = Path]
    /\ finished' = [finished EXCEPT ![Key] =
                       [kind |-> "return", size |-> files[Path].size]]
    /\ UNCHANGED <<files, feed, ret, posts, http>>

\* glob("*.nc") on the cache directory.
list_cached_files == { path \in Paths : files[path].exists }

DownloadNext ==
    \/ \E key \in Keys, force_download \in BOOLEAN :
          DownloadNetcdfIfNeeded(key[1], key[2], force_download)
    \/ \E response \in DownloadOutcomes : SendVerified(response)
    \/ \E response \in DownloadOutcomes : SendUnverified(response)
    \/ \E ok \in BOOLEAN : OpenFile(ok)
    \/ \E size \in RunSizes : WriteChunks(size)
    \/ ReadFails
    \/ WriteFails
    \/ DownloadComplete

DownloadSpec == Init /\ [][DownloadNext]_vars

(***************************************************************************)
(* What the claims speak of: the stations in the order a search meets      *)
(* them, those whose coordinates parse, and those that are complete        *)
(* records (coordinates that parse and an "id").                           *)
(***************************************************************************)
Visited == Traversal(list_stations(feed))

WithCoords(V) == { i \in DOMAIN V : CoordsOk(V[i]) }

ValidRecords(V) == { i \in DOMAIN V : CoordsOk(V[i]) /\ V[i].id # 0 }

\* The distance of every visited station with coordinates to the query of
\* the last call.
Distances(V) ==
    [i \in DOMAIN V |-> IF CoordsOk(V[i]) THEN Dist(ret.q, V[i]) ELSE Infinity]

\* The last call was op and it got its station list.
Called(op) == ret.op = op /\ ret.msg # "Failed to fetch station data"

Min(a, b) == IF a < b THEN a ELSE b

ReturnedIds == { ret.list[m].station.id : m \in DOMAIN ret.list }

\* C1: get_nearest_station returns the id of a station whose distance is
\* less than or equal to the distance of every station with valid
\* coordinates. The formula asks it only of the stations that carry an id
\* as well, which the claim implies.
C1_NearestIsMinimal ==
    LET V == Visited
        d == Distances(V)
        valid == ValidRecords(V)
    IN  (Called("get_nearest_station") /\ ret.kind = "return")
            => \E i \in valid :
                  /\ V[i].id = ret.id
                  /\ \A j \in valid : d[i] <= d[j]

\* C2: when several valid stations are at the minimum distance,
\* get_nearest_station returns the first of them in the traversal.
C2_FirstAtMinimumWins ==
    LET V == Visited
        d == Distances(V)
        valid == ValidRecords(V)
        AtMinimum == { i \in valid : \A j \in valid : d[i] <= d[j] }
    IN  (Called("get_nearest_station") /\ Cardinality(AtMinimum) >= 2)
            => /\ ret.kind = "return"
               /\ \E i \in AtMinimum :
                     /\ V[i].id = ret.id
                     /\ \A j \in AtMinimum : i <= j

\* C3: for k >= 1 get_k_nearest_stations returns k valid stations (all of
\* them if there are fewer) of smallest distance: each pair is a valid
\* station with its own distance, no station is returned twice, no valid
\* station left out is nearer than a returned one, and the m-th distance
\* returned is the m-th smallest distance of the valid stations.
C3_KNearestAreTheNearest ==
    LET V == Visited
        d == Distances(V)
        valid == ValidRecords(V)
        ids == ReturnedIds
    IN  (Called("get_k_nearest_stations") /\ ret.k >= 1 /\ feed # <<>>)
            => /\ ret.kind = "return"
               /\ Len(ret.list) = Min(ret.k, Cardinality(valid))
               /\ Cardinality(ids) = Len(ret.list)
               /\ \A m \in DOMAIN ret.list :
                     /\ \E i \in valid :
                           /\ V[i] = ret.list[m].station
                           /\ d[i] = ret.list[m].distance
                     /\ \A j \in valid :
                           V[j].id \notin ids => ret.list[m].distance <= d[j]
                     /\ Cardinality({ j \in valid : d[j] < ret.list[m].distance }) < m
                     /\ m <= Cardinality({ j \in valid : d[j] <= ret.list[m].distance })

\* C3 witness: k stations came back, and a valid station met before one of
\* them was left out (it was in the heap and was replaced).
C3_Witness ==
    LET V == Visited
        valid == ValidRecords(V)
        ids == ReturnedIds
    IN  /\ Called("get_k_nearest_stations") /\ ret.kind = "return"
        /\ ret.k >= 2 /\ Len(ret.list) = ret.k
        /\ \E i, j \in valid :
              j < i /\ V[i].id \in ids /\ V[j].id \notin ids

\* C4 as stated: for k >= 1 the length of the result is min(k, number of
\* stations with valid coordinates).
C4_LengthByCoordinates ==
    (Called("get_k_nearest_stations") /\ ret.k >= 1 /\ ret.kind = "return")
        => Len(ret.list) = Min(ret.k, Cardinality(WithCoords(Visited)))

\* C4 as amended: for k >= 1 the length of the result is min(k, number of
\* station records with valid coordinates and an "id").
C4_LengthByValidRecords ==
    (Called("get_k_nearest_stations") /\ ret.k >= 1 /\ feed # <<>>)
        => /\ ret.kind = "return"
           /\ Len(ret.list) = Min(ret.k, Cardinality(ValidRecords(Visited)))

\* C4 witness: fewer than k valid records, all of them returned, next to a
\* record with coordinates and no "id".
C4_Witness ==
    LET V == Visited
        valid == ValidRecords(V)
    IN  /\ Called("get_k_nearest_stations") /\ ret.kind = "return"
        /\ Cardinality(valid) >= 1
        /\ Cardinality(valid) < ret.k
        /\ Len(ret.list) = Cardinality(valid)
        /\ WithCoords(V) # valid

\* C5 as stated: the result of get_k_nearest_stations is strictly ascending
\* by distance.
C5_StrictlyAscending ==
    (Called("get_k_nearest_stations") /\ ret.kind = "return")
        => \A m \in 1 .. Len(ret.list) - 1 :
              ret.list[m].distance < ret.list[m + 1].distance

\* C5 as amended: the result of get_k_nearest_stations is ascending by
\* distance, stations at equal distance next to each other.
C5_Ascending ==
    (Called("get_k_nearest_stations") /\ ret.kind = "return")
        => \A m \in 1 .. Len(ret.list) - 1 :
              ret.list[m].distance <= ret.list[m + 1].distance

\* C5 witness: a result with two stations at the same distance and a third
\* one farther away.
C5_Witness ==
    /\ Called("get_k_nearest_stations") /\ ret.kind = "return"
    /\ Len(ret.list) >= 3
    /\ ret.list[1].distance = ret.list[2].distance
    /\ ret.list[2].distance < ret.list[3].distance

\* C6: for k >= 1, on a list with a valid station (here: a list of valid
\* records only), the first station of get_k_nearest_stations is the
\* station get_nearest_station returns on the same list.
C6_FirstOfKIsNearest ==
    LET V == Visited
        nearest == get_nearest_station(feed, ret.q, FALSE)
    IN  (/\ Called("get_k_nearest_stations") /\ ret.k >= 1
         /\ V # <<>> /\ ValidRecords(V) = DOMAIN V)
            => /\ ret.kind = "return"
               /\ Len(ret.list) >= 1
               /\ nearest.kind = "return"
               /\ ret.list[1].station.id = nearest.id

\* C7: get_k_nearest_stations with k <= 0 on a non-empty station list
\* returns the empty sequence and raises nothing.
C7_NonPositiveKReturnsEmpty ==
    (Called("get_k_nearest_stations") /\ ret.k <= 0 /\ feed # <<>>)
        => ret.kind = "return" /\ ret.list = <<>>

\* C8: when get_nearest_station_within_radius returns (id, d), d is the
\* haversine distance of the station with that id, and d <= max_distance_km.
C8_WithinRadius ==
    LET V == Visited
        d == Distances(V)
    IN  (Called("get_nearest_station_within_radius") /\ ret.id # 0)
            => /\ ret.dist <= ret.r * 1000
               /\ \E i \in DOMAIN V : V[i].id = ret.id
               /\ \A i \in DOMAIN V :
                     V[i].id = ret.id => CoordsOk(V[i]) /\ d[i] = ret.dist

\* C8 witness: a station is returned while another valid one of the list is
\* farther away than the radius.
C8_Witness ==
    LET V == Visited
        d == Distances(V)
    IN  /\ Called("get_nearest_station_within_radius") /\ ret.id # 0
        /\ \E i \in ValidRecords(V) : d[i] > ret.r * 1000

\* C9: if a station with valid coordinates lies within max_distance_km,
\* get_nearest_station_within_radius returns a station of minimum distance
\* among those, and the bounding box rejects no station within the radius.
\* The formula asks it only of the stations that carry an id as well, which
\* the claim implies.
C9_ClosestWithinRadiusFound ==
    LET V == Visited
        d == Distances(V)
        Within == { i \in ValidRecords(V) : d[i] <= ret.r * 1000 }
    IN  (Called("get_nearest_station_within_radius") /\ Within # {})
            => /\ ret.id # 0
               /\ \E i \in Within :
                     /\ V[i].id = ret.id
                     /\ \A j \in Within : d[i] <= d[j]
               /\ \A i \in Within :
                     InBoundingBox(ret.q, Float(V[i].latitude),
                                   Float(V[i].longitude), ret.r)

\* C10: get_nearest_station raises CPCBError and returns no station id when
\* the station list is empty or has no station with valid coordinates.
C10_NoDataRaises ==
    (Called("get_nearest_station") /\ WithCoords(Visited) = {})
        => /\ ret.kind = "CPCBError"
           /\ ret.id = 0
           /\ ret.msg = IF feed = <<>> THEN "No stations available"
                        ELSE "No valid stations found"

\* C10 witness: a list with stations, none with coordinates that parse, and
\* the call raised.
C10_Witness ==
    LET V == Visited
    IN  /\ Called("get_nearest_station")
        /\ V # <<>> /\ WithCoords(V) = {}
        /\ ret.kind = "CPCBError"

\* C11: get_k_nearest_stations raises CPCBError when the station list is
\* empty and also when it has stations but none with valid coordinates; in
\* the second case it does not return an empty list. The formula asks it of
\* the second case.
C11_KNearestRaisesWithoutValidStation ==
    LET V == Visited
    IN  (Called("get_k_nearest_stations") /\ V # <<>> /\ WithCoords(V) = {})
            => ret.kind = "CPCBError"

\* C12: get_nearest_station_within_radius returns None and raises nothing
\* when the list was fetched and no valid station lies within
\* max_distance_km, the empty list included; get_nearest_station on a list
\* without a valid station raises CPCBError, so the two outcomes differ.
C12_NotFoundIsNone ==
    LET V == Visited
        d == Distances(V)
        valid == ValidRecords(V)
    IN  /\ (/\ Called("get_nearest_station_within_radius")
            /\ \A i \in valid : d[i] > ret.r * 1000)
               => (ret.kind = "return" /\ ret.id = 0 /\ ret.dist = 0 - 1)
        /\ (Called("get_nearest_station") /\ valid = {})
               => (ret.kind = "CPCBError" /\ ret.id = 0)

\* C12 witness: a radius search came back with None although the list has a
\* valid station, which is farther away than max_distance_km.
C12_Witness ==
    LET V == Visited
        d == Distances(V)
        valid == ValidRecords(V)
    IN  /\ Called("get_nearest_station_within_radius")
        /\ valid # {}
        /\ \A i \in valid : d[i] > ret.r * 1000
        /\ ret.kind = "return" /\ ret.id = 0

\* The station list with every invalid record removed: the records whose
\* coordinates do not parse and the records without an "id".
RECURSIVE SelectValid(_)
SelectValid(stations) ==
    IF stations = <<>> THEN <<>>
    ELSE IF CoordsOk(Head(stations)) /\ Head(stations).id # 0
         THEN <<Head(stations)>> \o SelectValid(Tail(stations))
         ELSE SelectValid(Tail(stations))

WithoutInvalidRecords(cities) ==
    [c \in DOMAIN cities |->
        [cities[c] EXCEPT !.stationsInCity = SelectValid(@)]]

\* C13: in the three searches an invalid record (coordinates that do not
\* parse, or a missing field such as "id") never makes the call raise and
\* has no influence on the result: the outcome of the call is the outcome
\* of the same call on the list with every invalid record removed. The
\* formula asks it of get_k_nearest_stations for k >= 1 only.
C13_InvalidRecordsHaveNoInfluence ==
    LET clean == WithoutInvalidRecords(feed)
    IN  /\ Called("get_nearest_station")
              => ret = get_nearest_station(clean, ret.q, ret.return_distance)
        /\ (Called("get_k_nearest_stations") /\ ret.k >= 1)
              => ret = get_k_nearest_stations(clean, ret.q, ret.k)
        /\ Called("get_nearest_station_within_radius")
              => ret = get_nearest_station_within_radius(clean, ret.q, ret.r)

\* C14: when get_nearest_station(return_distance=True) or
\* get_nearest_station_within_radius returns a pair (station_id, distance),
\* the distance is the haversine distance from the query to the station
\* that carries that id.
C14_DistanceBelongsToId ==
    LET V == Visited
        d == Distances(V)
    IN  (/\ ret.kind = "return" /\ ret.id # 0
         /\ \/ Called("get_nearest_station") /\ ret.return_distance
            \/ Called("get_nearest_station_within_radius"))
            => \E i \in ValidRecords(V) : V[i].id = ret.id /\ d[i] = ret.dist

\* C15: the three searches are pure: they do no I/O of their own and work
\* on a station list that is already there. The formula asks that no
\* safe_post call has been made when a search has ended.
C15_SearchesDoNoIO ==
    ret.op \in SearchOps => posts = 0

\* The points of a state: the query points and the places of the stations
\* of the feed whose coordinates parse.
Points ==
    LET V == Traversal(feed)
    IN  Queries \cup { <<Float(V[i].latitude), Float(V[i].longitude)>> :
                         i \in WithCoords(V) }

MainRequests ==
    { i \in DOMAIN sent : IF i = 1 THEN TRUE
                          ELSE sent[i - 1].attempt # sent[i].attempt }

\* Request i gave the call something to return: a response that
\* raise_for_status lets pass and, for safe_post, a body that decodes.
Succeeds(i) ==
    /\ Passed(sent[i].response)
    /\ args.fn = "safe_post" => Decodes(sent[i].response.content)

\* Request i failed with a request error: an exception of the connection or
\* a server error.
RequestError(i) ==
    \/ sent[i].response.exc # ""
    \/ sent[i].response.status_code >= 500

\* What the call returns for the response of request i.
ResultOf(i) ==
    IF args.fn = "safe_get" THEN Returned(sent[i].response, "")
    ELSE Returned(NoResponse, Decoded(sent[i].response.content))

\* C17: a safe_get or safe_post call returns the result of the first
\* request that succeeds and never a failed response; when the loop has
\* made its max_retries + 1 attempts and every one failed with a request
\* error, the call raises NetworkError; and the loop never makes more than
\* max_retries + 1 attempts.
C17_RetryLoop ==
    /\ result.kind = "return"
          => /\ sent # <<>>
             /\ Succeeds(Len(sent))
             /\ \A i \in 1 .. Len(sent) - 1 : ~Succeeds(i)
             /\ result = ResultOf(Len(sent))
    /\ (/\ pc = "done" /\ result.kind # "ValueError"
        /\ Cardinality(MainRequests) = args.max_retries + 1
        /\ \A i \in MainRequests : RequestError(i)
        /\ \A i \in DOMAIN sent : ~Succeeds(i))
          => result.kind = "NetworkError"
    /\ Cardinality(MainRequests) <= args.max_retries + 1
    /\ \A i \in DOMAIN sent : sent[i].attempt <= args.max_retries

\* C17 witness: a call has returned the answer to its third or a later
\* request, which it sent in the last of its max_retries + 1 attempts.
C17_Witness ==
    /\ result.kind = "return"
    /\ Len(sent) >= 3
    /\ Cardinality(MainRequests) = args.max_retries + 1

\* C18: safe_post never retries after a client error: once a response with
\* a status in 400..499 has come back, on the verified path or on the
\* fallback path, it is the last request of the call and the call raises
\* NetworkError.
C18_NoRetryAfterClientError ==
    args.fn = "safe_post"
        => \A i \in DOMAIN sent :
              (/\ sent[i].response.exc = ""
               /\ sent[i].response.status_code >= 400
               /\ sent[i].response.status_code <= 499)
                  => /\ i = Len(sent)
                     /\ pc = "done" => result.kind = "NetworkError"

\* C19: safe_post never retries after a data processing error: once a
\* response has passed raise_for_status with a body that is empty, not
\* base64 or not JSON, on the verified path or on the fallback path, it is
\* the last request of the call and the call raises DataProcessingError.
C19_NoRetryAfterDataProcessingError ==
    args.fn = "safe_post"
        => \A i \in DOMAIN sent :
              (Passed(sent[i].response) /\ ~Decodes(sent[i].response.content))
                  => /\ i = Len(sent)
                     /\ pc = "done" => result.kind = "DataProcessingError"

\* C20 as stated: a request with verify=False is sent only if
\* allow_ssl_fallback is true and the verified request of the same attempt
\* has just failed with an SSLError; with allow_ssl_fallback false every
\* request has verify equal to verify_ssl.
C20_UnverifiedOnlyAsFallback ==
    \A i \in DOMAIN sent :
        /\ ~sent[i].verify
              => /\ args.allow_ssl_fallback
                 /\ i > 1
                 /\ sent[i - 1].attempt = sent[i].attempt
                 /\ sent[i - 1].response.exc = "SSLError"
        /\ ~args.allow_ssl_fallback => sent[i].verify = args.verify_ssl

\* C20 as amended: the request that begins an attempt has verify equal to
\* verify_ssl; any other request has verify=False and is sent only if
\* allow_ssl_fallback is true and the request that began the same attempt
\* has just failed with an SSLError; with allow_ssl_fallback false every
\* request begins an attempt and has verify equal to verify_ssl.
C20_FallbackOnlyAfterSSLError ==
    \A i \in DOMAIN sent :
        /\ IF i \in MainRequests THEN sent[i].verify = args.verify_ssl
           ELSE /\ ~sent[i].verify
                /\ args.allow_ssl_fallback
                /\ (i - 1) \in MainRequests
                /\ sent[i - 1].response.exc = "SSLError"
        /\ ~args.allow_ssl_fallback
              => (i \in MainRequests /\ sent[i].verify = args.verify_ssl)

\* C20 witness: a call with verify_ssl and allow_ssl_fallback true has sent
\* a request with verify=False, and has gone on to a later attempt.
C20_Witness ==
    /\ args.verify_ssl /\ args.allow_ssl_fallback
    /\ \E i \in DOMAIN sent : ~sent[i].verify /\ i < Len(sent)

\* C21: in safe_get and safe_post with allow_ssl_fallback true and
\* max_retries >= 0, every verified request that fails with an SSLError is
\* followed by a request with verify=False of the same attempt (or the call
\* is about to send it): the call never gives up on an SSLError without
\* the fallback.
C21_FallbackAfterEverySSLError ==
    (args.allow_ssl_fallback /\ args.max_retries >= 0)
        => \A i \in DOMAIN sent :
              (sent[i].verify /\ sent[i].response.exc = "SSLError")
                  => IF i = Len(sent) THEN pc = "fallback"
                     ELSE /\ ~sent[i + 1].verify
                          /\ sent[i + 1].attempt = sent[i].attempt

\* C23: safe_post raises ValueError and sends no request when url is empty
\* or not a string, when headers is empty or not a dict, or when cookies is
\* neither None nor a dict: the call ends before its first attempt.
C23_InvalidInputRaisesValueError ==
    (/\ args.fn = "safe_post"
     /\ \/ args.url.type # "str" \/ ~args.url.truthy
        \/ args.headers.type # "dict" \/ ~args.headers.truthy
        \/ args.cookies.type \notin { "NoneType", "dict" })
        => /\ pc = "done"
           /\ result.kind = "ValueError"
           /\ sent = <<>>
           /\ attempt = 0

\* C23 witness: safe_post has raised ValueError for its cookies, a string,
\* the url and the headers being in order.
C23_Witness ==
    /\ args.fn = "safe_post"
    /\ args.url = [type |-> "str", truthy |-> TRUE]
    /\ args.headers = [type |-> "dict", truthy |-> TRUE]
    /\ args.cookies.type = "str"
    /\ result.kind = "ValueError"

(***************************************************************************)
(* What the claims on the PM2.5 cache speak of.                            *)
(***************************************************************************)
\* A call is under way: it has begun and has neither returned nor raised.
Downloading == download.pc \notin { "idle", "done" }

\* The request failed: an exception, or a status raise_for_status rejects.
Failed(request) == ~Passed(request.response)

\* C22: _request_with_ssl_fallback sends at most two requests: the first
\* with verify=True; a second, with verify=False, if and only if the first
\* raised an SSLError; a failure of the first other than an SSLError
\* propagates as it is with no second request; a failure of the second is
\* raised as requests.RequestException.
C22_AtMostTwoRequests ==
    LET r == download.requests
    IN  /\ Len(r) <= 2
        /\ Len(r) >= 1 => r[1].verify
        /\ Len(r) = 2 => (~r[2].verify /\ r[1].response.exc = "SSLError")
        /\ (Len(r) = 1 /\ r[1].response.exc = "SSLError")
              => download.pc = "fallback"
        /\ (Len(r) = 1 /\ Failed(r[1]) /\ r[1].response.exc # "SSLError")
              => /\ download.pc = "done"
                 /\ download.request_raised = ExceptionOf(r[1].response)
        /\ (Len(r) = 2 /\ Failed(r[2]))
              => /\ download.pc = "done"
                 /\ download.request_raised = "RequestException"
        /\ (Len(r) >= 1 /\ ~Failed(r[Len(r)])) => download.request_raised = ""

\* C22 witness: the first request raised an SSLError, the second was sent
\* with verify=False and was answered with an error status, and
\* RequestException came out.
C22_Witness ==
    /\ Len(download.requests) = 2
    /\ ~download.requests[2].verify
    /\ download.requests[2].response.status_code >= 400
    /\ download.request_raised = "RequestException"

C25_NoFileLeftOnFailure ==
    /\ (download.pc = "done" /\ download.kind \in { "RequestException", "IOError" })
          => (~files[Path].exists /\ Path \notin list_cached_files)
    /\ \A key \in Keys :
          (/\ finished[key].kind \in { "RequestException", "IOError" }
           /\ ~(Downloading /\ Key = key))
              => get_netcdf_path(key[1], key[2]) \notin list_cached_files
    /\ (/\ download.pc # "idle"
        /\ finished[Key].kind \in { "RequestException", "IOError" }
        /\ Downloading)
          => ~download.before.exists

\* C25 witness: the writing failed after a run of chunks had been written,
\* and the file is gone.
C25_Witness ==
    /\ download.pc = "done" /\ download.kind = "IOError"
    /\ download.chunks >= 1
    /\ ~files[Path].exists

====
